---- MODULE Spec2Model ----
(***************************************************************************)
(* Model of cometblue_asyncio: the Device Session (class CometBlue) on top *)
(* of a BLE transport (bleak's BleakClient), and Discovery                 *)
(* (CometBlue.find_multiple on top of BleakScanner).                       *)
(*                                                                         *)
(* A session is used by one owner: its coroutines are called one after the *)
(* other, so `pc` is the position of the single running call.  Every       *)
(* `await` on the transport is a step of its own: the call is issued in    *)
(* one step and the transport answers in the next.                         *)
(*                                                                         *)
(* The transport is the environment (spec.md section 6): connect and the   *)
(* characteristic reads and writes answer ok or error, disconnect(handle)  *)
(* has no error answer.  A read or write issued on a handle that is not    *)
(* open is answered with an error.                                         *)
(***************************************************************************)
EXTENDS Integers, Sequences, FiniteSets, TLC

\* ---- bounds ----
MaxClients == 3     \* BleakClient objects one session creates in a run
MaxFails   == 3     \* connection attempts the transport can be set to fail
MaxReq     == 3     \* length of the address list given to find_multiple
MaxAds     == 3     \* advertisements delivered during one scan

\* ---- inputs ----
Timeouts == {2, 30}                 \* timeout argument of CometBlue.__init__

Getters == {"get_temperature", "get_battery", "get_datetime", "get_weekday",
            "get_holiday", "get_manual_mode"}
Setters == {"set_temperature", "set_datetime", "set_weekday", "set_holiday",
            "reset_holiday", "set_manual_mode"}
Accessors == Getters \cup Setters

Failures == {"TransportFailure", "AttributeError", "CodecError"}

VARIABLES
    connected,    \* self.connected
    client,       \* self.client: 0 while the attribute is unset, else the BleakClient
    timeout,      \* self.timeout
    links,        \* transport side of every BleakClient object
    nClients,     \* BleakClient objects created so far
    pc,           \* position of the running call of the session
    call,         \* the running (or last) call: what it was and what it did
    failsLeft,    \* transport: connection attempts still going to fail
    scope,        \* position with respect to `async with session:`
    raised,       \* __aexit__ was entered with an exception from the body
    addresses,    \* find_multiple: the request list
    found_devs,   \* find_multiple: the result list
    idx,          \* find_multiple: upper-cased address -> position, pending ones
    stop_event,   \* find_multiple: asyncio.Event
    fpc,          \* find_multiple: position of the call
    nAds,         \* advertisements delivered to the callback in this scan
    lastAdv,      \* the device of the last advertisement delivered
    diag,         \* find_multiple: addresses named by the timeout diagnostic
    scanOn,       \* the BleakScanner of find_multiple is running
    ending,       \* find_multiple: how the wait of line 272 ended
    seen,         \* upper-cased addresses advertised since the scan started
    cop,          \* codec: the function of interface.py applied last
    carg,         \* codec: what it was applied to
    cres          \* codec: what it returned or raised

svars == <<connected, client, timeout, links, nClients, pc, call, failsLeft,
           scope, raised>>
fvars == <<addresses, found_devs, idx, stop_event, fpc, nAds, lastAdv, diag,
           scanOn, ending, seen>>
cvars == <<cop, carg, cres>>
vars  == <<svars, fvars, cvars>>

\* ---- the transport: one BleakClient ----
NewLink(tmo) == [state |-> "connecting", tmo |-> tmo, pinOk |-> FALSE,
                 first |-> "none", early |-> FALSE]
NoLink == [state |-> "unborn", tmo |-> 0, pinOk |-> FALSE, first |-> "none",
           early |-> FALSE]

IsOpen(h) == h # 0 /\ links[h].state = "open"

\* a characteristic access reaches an open connection: the first one is
\* remembered, and so is an access to another characteristic than the PIN made
\* before a write of the PIN succeeded
Touch(l, what) ==
    [l EXCEPT !.first = IF l.first = "none" THEN what ELSE l.first,
              !.early = l.early \/ (what = "other" /\ ~l.pinOk)]

\* BleakClient.disconnect(): closes an open connection, nothing to do otherwise
Closed(l) == IF l.state = "open" THEN [l EXCEPT !.state = "closed"] ELSE l

\* ---- bookkeeping of a call ----
NoCall == [op |-> "none", result |-> "ok", nConn |-> 0, nPin |-> 0, nRW |-> 0,
           nDisc |-> 0, tmos |-> <<>>, preConnected |-> FALSE, preClient |-> 0,
           preFails |-> 0]

\* a call begins: what the session and the transport were like is remembered
\* (the client held and the failures to come only matter to connect)
Begin(op) == [NoCall EXCEPT !.op = op, !.result = "pending",
                 !.preConnected = connected,
                 !.preClient = IF op = "connect" THEN client ELSE 0,
                 !.preFails = IF op = "connect" THEN failsLeft ELSE 0]

Done == call.result # "pending"

\* where the scope is after a call returned (ok) or raised
ScopeAfter(ok) ==
    CASE scope = "entering" -> IF ok THEN "in" ELSE "out"
      [] scope = "exiting"  -> "exited"
      [] OTHER              -> scope

EmptyMap == [u \in {} |-> 0]

\* ---- CometBlue.__init__ ----
Init ==
    /\ connected = FALSE
    /\ client = 0
    /\ timeout \in Timeouts
    /\ links = [h \in 1..MaxClients |-> NoLink]
    /\ nClients = 0
    /\ pc = "idle"
    /\ call = NoCall
    /\ failsLeft = 0
    /\ scope = "out"
    /\ raised = FALSE
    /\ addresses = <<>>
    /\ found_devs = <<>>
    /\ idx = EmptyMap
    /\ stop_event = FALSE
    /\ fpc = "idle"
    /\ nAds = 0
    /\ lastAdv = [address |-> <<>>, n |-> 0]
    /\ diag = {}
    /\ scanOn = FALSE
    /\ ending = "none"
    /\ seen = {}
    /\ cop = "none"
    /\ carg = <<>>
    /\ cres = <<>>

\* ---- the environment changes how the transport will answer ----
\* (a transport that always fails is one that is set to fail again every time)
LinkChange ==
    /\ pc = "idle"
    /\ failsLeft = 0
    /\ nClients < MaxClients
    /\ \E f \in 1..MaxFails : failsLeft' = f
    /\ UNCHANGED <<connected, client, timeout, links, nClients, pc, call,
                   scope, raised, fvars, cvars>>

\* ---- CometBlue.connect ----
\* the timeout given to the BleakClient of this attempt
ConnectTimeout == timeout

\* lines 81-83: a new BleakClient, and its connect() is awaited
ConnectBegin ==
    /\ pc = "idle"
    /\ nClients < MaxClients
    /\ nClients' = nClients + 1
    /\ client' = nClients + 1
    /\ links' = [links EXCEPT ![nClients + 1] = NewLink(ConnectTimeout)]
    /\ call' = [Begin("connect") EXCEPT !.nConn = 1,
                                        !.tmos = <<ConnectTimeout>>]
    /\ pc' = "connect_83"
    /\ UNCHANGED <<connected, timeout, failsLeft, raised, fvars, cvars>>

\* self.connected after a connection attempt that failed: the error leaves
\* connect() at line 83, line 91 is not reached
ConnectFailStateM == TRUE
ConnectFailState == connected

\* line 83 raises
TransportConnectFail ==
    /\ pc = "connect_83"
    /\ failsLeft > 0
    /\ failsLeft' = failsLeft - 1
    /\ links' = [links EXCEPT ![client].state = "idle"]
    /\ connected' = ConnectFailState
    /\ call' = [call EXCEPT !.result = "TransportFailure"]
    /\ pc' = "idle"
    /\ scope' = ScopeAfter(FALSE)
    /\ UNCHANGED <<client, timeout, nClients, raised, fvars, cvars>>

\* line 83 returns, line 86 awaits the write of the PIN
TransportConnectOk ==
    /\ pc = "connect_83"
    /\ failsLeft = 0
    /\ links' = [links EXCEPT ![client].state = "open"]
    /\ call' = [call EXCEPT !.nPin = 1]
    /\ pc' = "pin_86"
    /\ UNCHANGED <<connected, client, timeout, nClients, failsLeft,
                   scope, raised, fvars, cvars>>

\* line 86 returns, line 91
PinWriteOk ==
    /\ pc = "pin_86"
    /\ links' = [links EXCEPT ![client] =
                    [Touch(links[client], "PIN") EXCEPT !.pinOk = TRUE]]
    /\ connected' = TRUE
    /\ call' = [call EXCEPT !.result = "ok"]
    /\ pc' = "idle"
    /\ scope' = ScopeAfter(TRUE)
    /\ UNCHANGED <<client, timeout, nClients, failsLeft, raised, fvars, cvars>>

\* what the except clause of connect() does with the connection: line 88
PinExceptM(l) == l
PinExcept(l) == Closed(l)

\* line 86 raises, line 88 awaits the disconnect
PinWriteFail ==
    /\ pc = "pin_86"
    /\ links' = [links EXCEPT ![client] = Touch(links[client], "PIN")]
    /\ call' = [call EXCEPT !.nDisc = 1]
    /\ pc' = "except_88"
    /\ UNCHANGED <<connected, client, timeout, nClients, failsLeft,
                   scope, raised, fvars, cvars>>

\* line 88 returns, line 89 re-raises
PinExceptRaise ==
    /\ pc = "except_88"
    /\ links' = [links EXCEPT ![client] = PinExcept(links[client])]
    /\ call' = [call EXCEPT !.result = "TransportFailure"]
    /\ pc' = "idle"
    /\ scope' = ScopeAfter(FALSE)
    /\ UNCHANGED <<connected, client, timeout, nClients, failsLeft,
                   raised, fvars, cvars>>

Connect ==
    /\ scope \in {"out", "in", "exited"}
    /\ ConnectBegin
    /\ scope' = IF scope = "in" THEN "in" ELSE "out"

\* ---- CometBlue.__aenter__ ----
AEnter ==
    /\ scope \in {"out", "exited"}
    /\ ConnectBegin
    /\ scope' = "entering"

\* ---- CometBlue.disconnect ----
\* line 99
DisconnectGuardM == TRUE
DisconnectGuard == connected

\* lines 99-100: the disconnect of the client is awaited, or nothing is done
DisconnectBegin ==
    /\ pc = "idle"
    /\ IF DisconnectGuard
          THEN /\ client # 0
               /\ call' = [Begin("disconnect") EXCEPT !.nDisc = 1]
               /\ pc' = "disc_100"
          ELSE /\ call' = [Begin("disconnect") EXCEPT !.result = "ok"]
               /\ pc' = "idle"
    /\ UNCHANGED <<connected, client, timeout, links, nClients, failsLeft,
                   fvars, cvars>>

\* line 100 returns, line 101
DisconnectDone ==
    /\ pc = "disc_100"
    /\ links' = [links EXCEPT ![client] = Closed(links[client])]
    /\ connected' = FALSE
    /\ call' = [call EXCEPT !.result = "ok"]
    /\ pc' = "idle"
    /\ scope' = ScopeAfter(TRUE)
    /\ UNCHANGED <<client, timeout, nClients, failsLeft, raised, fvars, cvars>>

Disconnect ==
    /\ scope \in {"out", "in", "exited"}
    /\ DisconnectBegin
    /\ scope' = IF scope = "in" THEN "in" ELSE "out"
    /\ UNCHANGED raised

\* ---- CometBlue.__aexit__ ----
\* line 235: disconnect() is awaited whatever exc_type is
AExitDisconnectsM(exc) == ~exc
AExitDisconnects(exc) == TRUE

\* the body of `async with` ends: normally, or with the exception of the call
\* that just raised in it
AExit ==
    /\ scope = "in"
    /\ pc = "idle"
    /\ \E exc \in BOOLEAN :
          /\ exc => call.result \in Failures
          /\ raised' = exc
          /\ IF AExitDisconnects(exc)
                THEN /\ DisconnectBegin
                     /\ scope' = IF pc' = "idle" THEN "exited" ELSE "exiting"
                ELSE /\ scope' = "exited"
                     /\ UNCHANGED <<connected, client, timeout, links, nClients,
                                    pc, call, failsLeft, fvars, cvars>>

\* ---- the getters and setters ----
\* the encoding of the argument raises before anything is read or written:
\* set_temperature at interface.py line 125 (pack() is given one tuple instead
\* of seven values), set_holiday at line 192 (the assert fails, or names the
\* undefined `temperature`), set_weekday at line 175 when a time is given
\* (line 86 yields a float, which a bytearray does not take)
EncodeRaises(op, hasTime) ==
    \/ op \in {"set_temperature", "set_holiday"}
    \/ op = "set_weekday" /\ hasTime

\* what _read_value (line 61) and _write_value (line 71) look at before they
\* call the client: nothing but the attribute itself
AccessGuard == client # 0

\* a getter or setter is called
AccessBegin ==
    /\ pc = "idle"
    /\ scope \in {"out", "in", "exited"}
    /\ \E op \in Accessors, hasTime \in BOOLEAN :
          /\ hasTime => op = "set_weekday"
          /\ IF op \in Setters /\ EncodeRaises(op, hasTime)
                THEN /\ call' = [Begin(op) EXCEPT !.result = "CodecError"]
                     /\ pc' = "idle"
                ELSE IF ~AccessGuard
                THEN /\ call' = [Begin(op) EXCEPT !.result = "AttributeError"]
                     /\ pc' = "idle"
                ELSE /\ call' = [Begin(op) EXCEPT !.nRW = 1]
                     /\ pc' = "rw_61_71"
    /\ scope' = IF scope = "in" THEN "in" ELSE "out"
    /\ UNCHANGED <<connected, client, timeout, links, nClients, failsLeft,
                   raised, fvars, cvars>>

\* the read or write is answered: it reached an open connection and succeeded
\* (what a getter then makes of the bytes is the codec's, interface.py)
AccessOk ==
    /\ pc = "rw_61_71"
    /\ IsOpen(client)
    /\ links' = [links EXCEPT ![client] = Touch(links[client], "other")]
    /\ call' = [call EXCEPT !.result = "ok"]
    /\ pc' = "idle"
    /\ UNCHANGED <<connected, client, timeout, nClients, failsLeft,
                   scope, raised, fvars, cvars>>

\* (a variant that disconnects after the failed transfer)
AccessFailM ==
    /\ pc = "rw_61_71"
    /\ links' = [links EXCEPT ![client] = Closed(Touch(links[client], "other"))]
    /\ connected' = FALSE
    /\ call' = [call EXCEPT !.result = "TransportFailure", !.nDisc = 1]
    /\ pc' = "idle"
    /\ UNCHANGED <<client, timeout, nClients, failsLeft, scope, raised, fvars, cvars>>

\* the read or write raises: the connection is not open, or the transfer failed
AccessFail ==
    /\ pc = "rw_61_71"
    /\ links' = IF IsOpen(client)
                   THEN [links EXCEPT ![client] = Touch(links[client], "other")]
                   ELSE links
    /\ call' = [call EXCEPT !.result = "TransportFailure"]
    /\ pc' = "idle"
    /\ UNCHANGED <<connected, client, timeout, nClients, failsLeft,
                   scope, raised, fvars, cvars>>

\* ---- the session ----
Next ==
    \/ LinkChange
    \/ Connect
    \/ AEnter
    \/ TransportConnectFail
    \/ TransportConnectOk
    \/ PinWriteOk
    \/ PinWriteFail
    \/ PinExceptRaise
    \/ Disconnect
    \/ DisconnectDone
    \/ AExit
    \/ AccessBegin
    \/ AccessOk
    \/ AccessFail

Spec == Init /\ [][Next]_vars

\* the transport answers every call it was given (a connection attempt is
\* bounded by the timeout of its BleakClient)
FairSpec ==
    Spec /\ WF_vars(TransportConnectFail \/ TransportConnectOk)
         /\ WF_vars(PinWriteOk \/ PinWriteFail)
         /\ WF_vars(PinExceptRaise)

\* ---- a transport whose disconnect may fail as well ----
\* what a BleakClient.disconnect() that raises has done to the connection:
\* closed it before raising, or left it as it was
AfterFailedDisconnect(l, closedIt) == IF closedIt THEN Closed(l) ELSE l

\* line 100 raises: line 101 is not reached, the error leaves disconnect()
DisconnectFail ==
    /\ pc = "disc_100"
    /\ \E closedIt \in BOOLEAN :
          links' = [links EXCEPT ![client] =
                       AfterFailedDisconnect(links[client], closedIt)]
    /\ call' = [call EXCEPT !.result = "TransportFailure"]
    /\ pc' = "idle"
    /\ scope' = ScopeAfter(FALSE)
    /\ UNCHANGED <<connected, client, timeout, nClients, failsLeft,
                   raised, fvars, cvars>>

\* line 88 raises: its error leaves connect() in place of the one of line 86
PinExceptFail ==
    /\ pc = "except_88"
    /\ \E closedIt \in BOOLEAN :
          links' = [links EXCEPT ![client] =
                       AfterFailedDisconnect(links[client], closedIt)]
    /\ call' = [call EXCEPT !.result = "TransportFailure"]
    /\ pc' = "idle"
    /\ scope' = ScopeAfter(FALSE)
    /\ UNCHANGED <<connected, client, timeout, nClients, failsLeft,
                   raised, fvars, cvars>>

LossyNext ==
    \/ LinkChange
    \/ Connect
    \/ AEnter
    \/ TransportConnectFail
    \/ TransportConnectOk
    \/ PinWriteOk
    \/ PinWriteFail
    \/ PinExceptRaise
    \/ PinExceptFail
    \/ Disconnect
    \/ DisconnectDone
    \/ DisconnectFail
    \/ AExit
    \/ AccessBegin
    \/ AccessOk
    \/ AccessFail

LossySpec == Init /\ [][LossyNext]_vars

Links == 1..MaxClients
Min(a, b) == IF a < b THEN a ELSE b

\* ---- claims ----

\* C1: a getter or setter called while the session is Disconnected fails
\* (whatever error is raised is taken to stand for NotConnected), makes no
\* transport read or write, does not connect, and leaves the state Disconnected.
C1_NotConnected ==
    (call.op \in Accessors /\ ~call.preConnected) =>
        /\ call.nRW = 0
        /\ call.nConn = 0
        /\ ~connected
        /\ Done /\ call.result \in Failures

\* C2: when the transport connection of a connect() succeeded and the write of
\* the PIN failed, the connection was disconnected, the failure is propagated,
\* and after the call the state is Disconnected and no connection is open.
C2_PinFailure ==
    (call.op = "connect" /\ Done /\ call.nPin = 1 /\ call.result # "ok") =>
        /\ call.nDisc = 1
        /\ call.result = "TransportFailure"
        /\ ~connected
        /\ \A h \in Links : links[h].state # "open"

\* C3: against a transport that fails the first 3 connection attempts and then
\* succeeds, one connect() makes exactly 4 attempts and ends Connected, the
\* timeout of attempt i being the initial one plus 2 per earlier failure,
\* capped at twice the initial one (2, 4, 4, 4 for an initial timeout of 2).
C3_Retry ==
    (call.op = "connect" /\ Done /\ ~call.preConnected /\ call.preFails = 3) =>
        /\ call.nConn = 4
        /\ Len(call.tmos) = 4
        /\ \A i \in DOMAIN call.tmos :
              call.tmos[i] = Min(timeout + 2 * (i - 1), 2 * timeout)
        /\ call.result = "ok"
        /\ connected

\* no connection attempt of the session has succeeded so far
NeverOpened == \A h \in Links : links[h].state \in {"unborn", "connecting", "idle"}

C4_Bounded ==
    (call.op = "connect" /\ NeverOpened) =>
        /\ call.nConn <= 10
        /\ \A i \in DOMAIN call.tmos : call.tmos[i] <= 2 * timeout
        /\ \A h \in Links : links[h].tmo <= 2 * timeout
        /\ Cardinality({h \in Links : links[h].state = "connecting"}) <= 1
        /\ Done => call.result = "TransportFailure" /\ ~connected

\* C4: connect() terminates, and against a transport whose connection attempts
\* all fail it makes at most 10 attempts, none with a timeout above twice the
\* initial one, never two at a time, and ends with a TransportFailure in state
\* Disconnected.
C4_Terminates ==
    /\ []C4_Bounded
    /\ (call.op = "connect" /\ ~Done) ~> Done

C4_Witness ==
    /\ call.op = "connect" /\ Done /\ NeverOpened
    /\ call.result = "TransportFailure" /\ call.nConn = 1
    /\ nClients > 1

\* C5: connect() on a Connected session is a no-op: no transport connection is
\* opened, no PIN is written, the client held is kept, the state stays Connected.
C5_Idempotent ==
    (call.op = "connect" /\ call.preConnected) =>
        /\ call.nConn = 0
        /\ call.nPin = 0
        /\ call.nDisc = 0
        /\ client = call.preClient
        /\ connected

AddrPool == {<<"a", "1">>, <<"A", "1">>, <<"b", "2">>}
AdvPool  == AddrPool \cup {<<"B", "2">>, <<"c", "3">>}

ReqLists == UNION {[1..n -> AddrPool] : n \in 0..MaxReq}

None == [address |-> <<>>, n |-> 0]

\* str.upper(), letter by letter
UpperChar(c) ==
    CASE c = "a" -> "A"
      [] c = "b" -> "B"
      [] c = "c" -> "C"
      [] OTHER   -> c

RECURSIVE upper(_)
upper(s) == IF s = <<>> THEN <<>> ELSE <<UpperChar(Head(s))>> \o upper(Tail(s))

\* m[k] = v, as a dict assignment
Put(m, k, v) == [u \in DOMAIN m \cup {k} |-> IF u = k THEN v ELSE m[u]]

\* line 259: {a.upper(): i for i, a in enumerate(addresses)}, built from the
\* left, a later position replacing an earlier one of the same key
RECURSIVE IdxOf(_, _)
IdxOf(addrs, n) ==
    IF n = 0 THEN EmptyMap
    ELSE Put(IdxOf(addrs, n - 1), upper(addrs[n]), n)

\* dict.pop(k), the dict that is left
PopM(m, k) == m
Pop(m, k) == [u \in DOMAIN m \ {k} |-> m[u]]

\* lines 262-268: the advertisement callback, on the device advertised
callback(device) ==
    LET k == upper(device.address) IN
    IF k \notin DOMAIN idx
       THEN [found |-> found_devs, idx |-> idx, stop |-> stop_event]
       ELSE LET left == Pop(idx, k) IN
            [found |-> [found_devs EXCEPT ![idx[k]] = device],
             idx   |-> left,
             stop  |-> IF DOMAIN left = {} THEN TRUE ELSE stop_event]

\* lines 258-260 and 271: the call begins and the scanner is started
FindBegin ==
    /\ fpc = "idle"
    /\ \E addrs \in ReqLists :
          /\ addresses' = addrs
          /\ found_devs' = [i \in 1..Len(addrs) |-> None]
          /\ idx' = IdxOf(addrs, Len(addrs))
    /\ stop_event' = FALSE
    /\ fpc' = "scanning"
    /\ nAds' = 0
    /\ scanOn' = TRUE
    /\ seen' = {}
    /\ UNCHANGED <<lastAdv, diag, ending, svars, cvars>>

\* the scanner delivers an advertisement, as long as it runs
Advertise ==
    /\ scanOn
    /\ nAds < MaxAds
    /\ \E a \in AdvPool :
          LET device == [address |-> a, n |-> nAds + 1]
              r == callback(device)
          IN  /\ lastAdv' = device
              /\ found_devs' = r.found
              /\ idx' = r.idx
              /\ stop_event' = r.stop
              /\ seen' = seen \cup {upper(a)}
    /\ nAds' = nAds + 1
    /\ UNCHANGED <<addresses, fpc, diag, scanOn, ending, svars, cvars>>

\* line 272 returns: the event is set; line 271 leaves the `async with`
FindSignalled ==
    /\ fpc = "scanning"
    /\ stop_event
    /\ ending' = "signal"
    /\ fpc' = "stopping"
    /\ UNCHANGED <<addresses, found_devs, idx, stop_event, nAds, lastAdv,
                   diag, scanOn, seen, svars, cvars>>

\* line 272 raises TimeoutError: the timeout elapsed before the event was set
FindTimeout ==
    /\ fpc = "scanning"
    /\ ~stop_event
    /\ ending' = "timeout"
    /\ fpc' = "stopping"
    /\ UNCHANGED <<addresses, found_devs, idx, stop_event, nAds, lastAdv,
                   diag, scanOn, seen, svars, cvars>>

\* line 272 raises CancelledError: the task awaiting find_multiple is cancelled
FindCancel ==
    /\ fpc = "scanning"
    /\ ending' = "cancel"
    /\ fpc' = "stopping"
    /\ UNCHANGED <<addresses, found_devs, idx, stop_event, nAds, lastAdv,
                   diag, scanOn, seen, svars, cvars>>

\* line 271: `async with BleakScanner(...)` stops the scanner however its
\* body was left
StopsScanM(how) == how = "signal"
StopsScan(how) == TRUE

\* the scanner is stopped at the end of line 271's block; then lines 273-274
\* log the keys left in idx after a timeout, line 276 returns the list, and a
\* cancellation goes on to the caller
FindEnd ==
    /\ fpc = "stopping"
    /\ scanOn' = IF StopsScan(ending) THEN FALSE ELSE scanOn
    /\ diag' = IF ending = "timeout" THEN DOMAIN idx ELSE diag
    /\ fpc' = IF ending = "cancel" THEN "raised" ELSE "returned"
    /\ UNCHANGED <<addresses, found_devs, idx, stop_event, nAds, lastAdv,
                   ending, seen, svars, cvars>>

FindNext ==
    \/ FindBegin
    \/ Advertise
    \/ FindSignalled
    \/ FindTimeout
    \/ FindCancel
    \/ FindEnd

FindSpec == Init /\ [][FindNext]_vars

\* the event loop runs the coroutine on when the wait is over, and the scanner
\* answers its stop
FairFindSpec ==
    FindSpec /\ WF_vars(FindSignalled \/ FindTimeout) /\ WF_vars(FindEnd)

\* C9: an advertisement whose address is not pending (never requested, or
\* already resolved) changes neither the result list nor the pending set nor
\* the completion signal; a position that holds a device keeps that device.
C9_Ignored ==
    /\ [][(nAds' = nAds + 1 /\ upper(lastAdv'.address) \notin DOMAIN idx)
             => UNCHANGED <<found_devs, idx, stop_event>>]_vars
    /\ [][nAds' = nAds + 1 =>
             \A i \in DOMAIN found_devs :
                 found_devs[i] # None => found_devs'[i] = found_devs[i]]_vars

C9_Witness ==
    /\ fpc = "scanning"
    /\ \E i \in DOMAIN found_devs :
          /\ found_devs[i] # None
          /\ upper(found_devs[i].address) = upper(lastAdv.address)
          /\ found_devs[i].n < lastAdv.n

\* C10: in every state of a find_multiple call, for every request list, the
\* completion signal is set exactly when no address is pending, and once set
\* it stays set.
C10_Signal ==
    /\ [](fpc # "idle" => (stop_event <=> DOMAIN idx = {}))
    /\ [][stop_event => stop_event']_vars

FindOver == fpc \in {"returned", "raised"}

\* C11: however the wait ended (signal, timeout, cancellation), the scanner
\* is stopped when find_multiple returns or raises, and no advertisement
\* changes the result afterwards.
C11_NoLeak ==
    /\ [](FindOver => ~scanOn)
    /\ [][FindOver => (found_devs' = found_devs /\ idx' = idx)]_vars

C11_Witness ==
    /\ fpc = "raised" /\ ending = "cancel"
    /\ nAds > 0 /\ nAds < MaxAds
    /\ ~scanOn

\* an advertisement of the address asked for at position i was delivered
Delivered(i) == upper(addresses[i]) \in seen

\* C12: the result has the length of the request, and position i holds a
\* device whose address is addresses[i] but for the case of the letters when
\* such an address was advertised during the scan, the absent marker if not;
\* for every request list, repeated addresses included.
C12_Positional ==
    fpc = "returned" =>
        /\ Len(found_devs) = Len(addresses)
        /\ \A i \in DOMAIN addresses :
              IF Delivered(i)
                 THEN /\ found_devs[i] # None
                      /\ upper(found_devs[i].address) = upper(addresses[i])
                 ELSE found_devs[i] = None

\* every address of the request has been advertised
AllMatched == \A i \in DOMAIN addresses : Delivered(i)

\* C13: once every requested address has been matched the call does not wait
\* for the timeout; a call that ends by the timeout returns, without raising,
\* after a diagnostic that names the addresses still missing.
C13_EarlyExit ==
    /\ [][(fpc = "scanning" /\ AllMatched) => ending' # "timeout"]_vars
    /\ [](ending = "timeout" =>
             /\ fpc # "raised"
             /\ fpc = "returned" =>
                   diag = {upper(addresses[i]) : i \in DOMAIN addresses} \ seen)
    /\ (fpc = "scanning" /\ AllMatched) ~> FindOver

Returned(v) == [ok |-> TRUE, err |-> "", val |-> v]
Raised(kind) == [ok |-> FALSE, err |-> kind, val |-> <<>>]

\* ---- PIN ----------------------------------------------------------------

\* PINs offered to the constructor: inside the range, on its edges, beyond.
Pins == {-1, 0, 1, 255, 256, 99999999, 100000000, 2147483647}

\* if 0 > pin >= 100000000: a chained comparison, both halves must hold.
PinCheckRaises(pin) == 0 > pin /\ pin >= 100000000

\* int.to_bytes(length, 'little', signed=False): OverflowError for a negative
\* value or one that does not fit in length bytes.
to_bytes(n, length) ==
    IF n < 0 \/ n \div (256 ^ (length - 1)) > 255
    THEN Raised("OverflowError")
    ELSE Returned([i \in 1..length |-> (n \div (256 ^ (i - 1))) % 256])

transform_pin(pin) == to_bytes(pin, 4)

\* CometBlue.__init__: the range check, then the PIN bytes kept for connect.
NewSession(pin) ==
    IF PinCheckRaises(pin) THEN Raised("ValueError") ELSE transform_pin(pin)

CreateSession ==
    /\ cop = "none"
    /\ \E pin \in Pins :
        /\ cop' = "init"
        /\ carg' = pin
        /\ cres' = NewSession(pin)
        /\ UNCHANGED <<svars, fvars>>

\* C14: a session is created exactly for PINs 0..99999999, and then holds the
\* PIN as 4 little-endian unsigned bytes; any other PIN is refused.
C14_PinRange ==
    cop = "init" =>
        IF carg \in 0..99999999
        THEN /\ cres.ok
             /\ Len(cres.val) = 4
             /\ \A i \in 1..4 : cres.val[i] \in 0..255
             /\ cres.val[1] + 256 * cres.val[2] + 65536 * cres.val[3]
                  + 16777216 * cres.val[4] = carg
        ELSE ~cres.ok


\* ---- day schedule -------------------------------------------------------

NO_TIME == 255
DaySlots == 8

\* A time of day; NoneTime stands for Python's None (an absent time).
NoneTime == [hour |-> -1, minute |-> -1]
T(h, m) == [hour |-> h, minute |-> m]
TimePool == {NoneTime, T(10, 10), T(23, 57)}
Schedules == [1..DaySlots -> TimePool]
ByteLists == [1..DaySlots -> {NO_TIME, 143, 144}]

\* A Python number: an int, or the float that the / operator produces.
\* tenths is ten times the value, so that one decimal place is kept.
PyInt(n) == [float |-> FALSE, tenths |-> 10 * n]
PyFloat(t) == [float |-> TRUE, tenths |-> t]

\* value.hour * 6 + value.minute / 10
time_to_int(value) ==
    IF value = NoneTime THEN PyInt(NO_TIME)
    ELSE PyFloat(value.hour * 60 + value.minute)

\* new_value[i] = x on a bytearray: TypeError for a float, ValueError for an
\* int outside 0..255.
SetItem(x) ==
    IF x.float THEN Raised("TypeError")
    ELSE IF x.tenths \div 10 \notin 0..255 THEN Raised("ValueError")
    ELSE Returned(x.tenths \div 10)

\* the first slot whose assignment raises ends the loop
FirstBad(items) ==
    CHOOSE i \in DOMAIN items :
        ~items[i].ok /\ \A j \in 1..(i - 1) : items[j].ok

transform_weekday_request(new_value) ==
    LET items == [i \in DOMAIN new_value |-> SetItem(time_to_int(new_value[i]))]
    IN  IF Len(new_value) > DaySlots THEN Raised("IndexError")
        ELSE IF \E i \in DOMAIN items : ~items[i].ok
             THEN Raised(items[FirstBad(items)].err)
             ELSE Returned([i \in 1..DaySlots |->
                              IF i \in DOMAIN items THEN items[i].val ELSE 0])

\* divmod(value, 6), then datetime.time(hour, minute * 10)
int_to_time(value) ==
    IF value = NO_TIME THEN Returned(NoneTime)
    ELSE IF value \div 6 > 23 THEN Raised("ValueError")
    ELSE Returned(T(value \div 6, (value % 6) * 10))

transform_weekday_response(value) ==
    LET items == [i \in DOMAIN value |-> int_to_time(value[i])]
    IN  IF \E i \in DOMAIN items : ~items[i].ok
        THEN Raised(items[FirstBad(items)].err)
        ELSE Returned([i \in DOMAIN items |-> items[i].val])

EncodeDay ==
    /\ cop = "none"
    /\ \E times \in Schedules :
        /\ cop' = "weekday_request"
        /\ carg' = times
        /\ cres' = transform_weekday_request(times)
        /\ UNCHANGED <<svars, fvars>>

DecodeDay ==
    /\ cop = "none"
    /\ \E bytes \in ByteLists :
        /\ cop' = "weekday_response"
        /\ carg' = bytes
        /\ cres' = transform_weekday_response(bytes)
        /\ UNCHANGED <<svars, fvars>>

\* what the day codec is documented to produce for one slot
SlotByte(t) == IF t = NoneTime THEN 255 ELSE t.hour * 6 + t.minute \div 10
SlotTime(b) == IF b = 255 THEN NoneTime ELSE T(b \div 6, (b % 6) * 10)

\* C15: a day's 8 times encode to 8 bytes, hour*6 + minute/10 rounded down for
\* a present time and 255 for an absent one; 8 bytes decode to the times they
\* stand for, 255 to an absent time.
C15_DayCodec ==
    /\ cop = "weekday_request" =>
          /\ cres.ok
          /\ Len(cres.val) = 8
          /\ \A i \in 1..8 : cres.val[i] = SlotByte(carg[i])
    /\ (cop = "weekday_response" /\ \A i \in 1..8 : carg[i] = 255 \/ carg[i] < 144) =>
          /\ cres.ok
          /\ \A i \in 1..8 : cres.val[i] = SlotTime(carg[i])


\* ---- temperatures -------------------------------------------------------

UNCHANGED_VALUE == 128
UNCHANGED_TEMP == -128

\* A temperature argument: omitted (Python's None) or given, in tenths of a
\* degree.
NoTemp == [given |-> FALSE, tenths |-> 0]
Temp(t) == [given |-> TRUE, tenths |-> t]
TempPool == {NoTemp, Temp(200), Temp(-55), Temp(203)}
TempArgs == [1..4 -> TempPool]

\* int(x) for x = n / d: rounds toward zero
Trunc(n, d) == IF n >= 0 THEN n \div d ELSE -((-n) \div d)

\* UNCHANGED_TEMP if temp is None else int(temp*2)
temperature_to_int(temp) ==
    IF ~temp.given THEN UNCHANGED_TEMP ELSE Trunc(temp.tenths * 2, 10)

Signed(b) == IF b > 127 THEN b - 256 ELSE b

\* Struct('<5b2B').pack(*args): 7 integers, 5 signed bytes then 2 unsigned.
pack(args) ==
    IF Len(args) # 7 THEN Raised("struct.error")
    ELSE IF \/ \E i \in 1..5 : args[i] \notin -128..127
            \/ \E i \in 6..7 : args[i] \notin 0..255
         THEN Raised("struct.error")
         ELSE Returned([i \in 1..7 |-> args[i] % 256])

\* Struct('<5b2B').unpack(buffer)
unpack(buffer) ==
    IF Len(buffer) # 7 THEN Raised("struct.error")
    ELSE Returned([i \in 1..7 |->
                     IF i <= 5 THEN Signed(buffer[i]) ELSE buffer[i]])

\* the tuple is handed to pack as its single argument
transform_temperature_request(manualTemp, targetTempLow, targetTempHigh, tempOffset) ==
    LET new_value == << UNCHANGED_TEMP,
                        temperature_to_int(manualTemp),
                        temperature_to_int(targetTempLow),
                        temperature_to_int(targetTempHigh),
                        temperature_to_int(tempOffset),
                        UNCHANGED_VALUE,
                        UNCHANGED_VALUE >>
    IN  pack(<<new_value>>)

\* v[i] / 2. in tenths of a degree is 5 * v[i]
transform_temperature_response(value) ==
    LET v == unpack(value)
    IN  IF ~v.ok THEN v
        ELSE Returned([currentTemp       |-> 5 * v.val[1],
                       manualTemp        |-> 5 * v.val[2],
                       targetTempLow     |-> 5 * v.val[3],
                       targetTempHigh    |-> 5 * v.val[4],
                       tempOffset        |-> 5 * v.val[5],
                       windowOpen        |-> v.val[6] = 240,
                       windowOpenMinutes |-> v.val[7]])

TempBuffers == [1..7 -> {128, 40, 240}] \cup [1..6 -> {40}]

EncodeTemperature ==
    /\ cop = "none"
    /\ \E a \in TempArgs :
        /\ cop' = "temperature_request"
        /\ carg' = a
        /\ cres' = transform_temperature_request(a[1], a[2], a[3], a[4])
        /\ UNCHANGED <<svars, fvars>>

DecodeTemperature ==
    /\ cop = "none"
    /\ \E buffer \in TempBuffers :
        /\ cop' = "temperature_response"
        /\ carg' = buffer
        /\ cres' = transform_temperature_response(buffer)
        /\ UNCHANGED <<svars, fvars>>

\* the half-degree byte a temperature argument is documented to encode to
HalfDegrees(t) == IF t.given THEN (t.tenths \div 5) % 256 ELSE 128
HalfDegreeStep(t) == t.given => (t.tenths % 5 = 0 /\ t.tenths \div 5 \in -128..127)

\* C16: given values that are multiples of 0.5 and fit a signed byte encode
\* to 7 bytes that decode to the given value for each given field and to
\* -64.0 for each omitted one.
C16_TempRoundTrip ==
    (cop = "temperature_request" /\ \A i \in 1..4 : HalfDegreeStep(carg[i])) =>
        /\ cres.ok
        /\ Len(cres.val) = 7
        /\ LET back == transform_temperature_response(cres.val)
               want(t) == IF t.given THEN t.tenths ELSE -640
           IN  /\ back.ok
               /\ back.val.manualTemp = want(carg[1])
               /\ back.val.targetTempLow = want(carg[2])
               /\ back.val.targetTempHigh = want(carg[3])
               /\ back.val.tempOffset = want(carg[4])

\* C19: the 7 bytes set_temperature hands to the TEMPERATURE write carry the
\* sentinel in byte 0, 0x80 in bytes 5 and 6, and the sentinel in the byte of
\* every omitted field.
C19_SentinelBytes ==
    cop = "temperature_request" =>
        /\ cres.ok
        /\ Len(cres.val) = 7
        /\ cres.val[1] = 128
        /\ cres.val[6] = 128
        /\ cres.val[7] = 128
        /\ \A i \in 1..4 : ~carg[i].given => cres.val[i + 1] = 128


\* ---- holidays -----------------------------------------------------------

\* datetime(year, month, day, hour) raises ValueError unless the four form a
\* date of the calendar (years 1..9999) and an hour of the day
IsLeap(y) == y % 4 = 0 /\ (y % 100 # 0 \/ y % 400 = 0)
DaysIn(y, m) ==
    IF m \in {4, 6, 9, 11} THEN 30
    ELSE IF m = 2 THEN (IF IsLeap(y) THEN 29 ELSE 28)
    ELSE 31
ValidDate(y, m, d, h) ==
    /\ y \in 1..9999
    /\ m \in 1..12
    /\ d \in 1..DaysIn(y, m)
    /\ h \in 0..23

DT(y, mo, d, h, mi) == [year |-> y, month |-> mo, day |-> d, hour |-> h, minute |-> mi]

\* Python's None, returned for an unparseable holiday
NoHoliday == [none |-> TRUE, start |-> DT(0, 0, 0, 0, 0), end |-> DT(0, 0, 0, 0, 0),
              temperature |-> 0]

\* values[0..3] are hour, day, month, year of the start, values[4..7] of the
\* end; temperature = values[8] / 2. is kept in tenths of a degree
transform_holiday_response(values) ==
    IF \/ ~ValidDate(values[4] + 2000, values[3], values[2], values[1])
       \/ ~ValidDate(values[8] + 2000, values[7], values[6], values[5])
    THEN Returned(NoHoliday)
    ELSE Returned([none |-> FALSE,
                   start |-> DT(values[4] + 2000, values[3], values[2], values[1], 0),
                   end |-> DT(values[8] + 2000, values[7], values[6], values[5], 0),
                   temperature |-> 5 * values[9]])

\* hour, day, month, year byte: valid dates, the sentinel, a 29 February of a
\* year that has none, an hour 24, a 31 April
DateBytes == { <<10, 1, 1, 24>>, <<12, 29, 2, 24>>, <<128, 128, 128, 128>>,
               <<12, 29, 2, 100>>, <<24, 1, 1, 24>>, <<0, 31, 4, 24>> }
TempBytes == {40, 57, 128}

DecodeHoliday ==
    /\ cop = "none"
    /\ \E s \in DateBytes, e \in DateBytes, t \in TempBytes :
        /\ cop' = "holiday_response"
        /\ carg' = s \o e \o <<t>>
        /\ cres' = transform_holiday_response(s \o e \o <<t>>)
        /\ UNCHANGED <<svars, fvars>>

\* interface.py binds no name `temperature`: the parameter is called temp
temperature_defined == FALSE

\* assert start != end and 29 > temperature >= 8: a false left operand fails
\* the assertion, a true one goes on to look up `temperature`
transform_holiday_request(start, end, temp) ==
    IF start = end THEN Raised("AssertionError")
    ELSE IF ~temperature_defined THEN Raised("NameError")
    ELSE LET last == SetItem(PyInt(Trunc(temp * 2, 10)))
         IN  IF ~last.ok THEN last
             ELSE Returned(<< start.hour, start.day, start.month, start.year % 100,
                              end.hour, end.day, end.month, end.year % 100,
                              last.val >>)

DatePool == { DT(2024, 1, 1, 10, 0), DT(2024, 1, 1, 10, 30),
              DT(2024, 12, 24, 18, 0), DT(2124, 12, 24, 18, 0) }
HolidayTemps == {75, 80, 200, 285, 290}

EncodeHoliday ==
    /\ cop = "none"
    /\ \E start \in DatePool, end \in DatePool, temp \in HolidayTemps :
        /\ cop' = "holiday_request"
        /\ carg' = [start |-> start, end |-> end, temp |-> temp]
        /\ cres' = transform_holiday_request(start, end, temp)
        /\ UNCHANGED <<svars, fvars>>

CodecNext ==
    \/ CreateSession
    \/ EncodeDay
    \/ DecodeDay
    \/ EncodeTemperature
    \/ DecodeTemperature
    \/ DecodeHoliday
    \/ EncodeHoliday

CodecSpec == Init /\ [][CodecNext]_vars

\* C17: a 9-byte buffer decodes to the empty signal when its start or end is
\* no calendar date or when start equals end, and otherwise to start, end and
\* byte 8 / 2; nothing is raised.
C17_HolidayDecode ==
    cop = "holiday_response" =>
        /\ cres.ok
        /\ IF \/ ~ValidDate(carg[4] + 2000, carg[3], carg[2], carg[1])
              \/ ~ValidDate(carg[8] + 2000, carg[7], carg[6], carg[5])
              \/ SubSeq(carg, 1, 4) = SubSeq(carg, 5, 8)
           THEN cres.val.none
           ELSE /\ ~cres.val.none
                /\ cres.val.start = DT(carg[4] + 2000, carg[3], carg[2], carg[1], 0)
                /\ cres.val.end = DT(carg[8] + 2000, carg[7], carg[6], carg[5], 0)
                /\ cres.val.temperature = 5 * carg[9]

\* C18: the holiday encoder returns the 9 bytes of start, end and
\* temperature*2 exactly when start differs from end and the temperature is
\* in [8, 29), and fails otherwise.
C18_HolidayEncode ==
    cop = "holiday_request" =>
        IF carg.start # carg.end /\ carg.temp >= 80 /\ carg.temp < 290
        THEN /\ cres.ok
             /\ cres.val = << carg.start.hour, carg.start.day, carg.start.month,
                              carg.start.year % 100,
                              carg.end.hour, carg.end.day, carg.end.month,
                              carg.end.year % 100,
                              carg.temp \div 5 >>
        ELSE ~cres.ok


\* ---- the session over a transport whose every call may fail ----
OpenLinks == {h \in Links : links[h].state = "open"}

\* C21: between calls, whenever the session says it is connected, the client
\* it holds has an open connection on which the PIN write succeeded.
C21_ConnectedOpen ==
    (pc = "idle" /\ connected) => (IsOpen(client) /\ links[client].pinOk)

\* C22: at most one connection opened by the session is open at any time, and
\* none is open once a disconnect() has returned without an error.
C22_NoLeak ==
    /\ Cardinality(OpenLinks) <= 1
    /\ (pc = "idle" /\ call.op = "disconnect" /\ call.result = "ok") =>
          OpenLinks = {}

====
